---- MODULE Spec2Model ----
(***************************************************************************)
(* The queue of lab0-c: a circular doubly linked list rooted at a sentinel *)
(* struct list_head, with one element_t (a string and an embedded link)    *)
(* per entry.  Memory is a set of cells addressed by small integers; the   *)
(* operations are the functions of queue.c, each one an atomic action      *)
(* whose effect is computed by replaying the function's pointer            *)
(* assignments in program order.                                           *)
(*                                                                         *)
(* queue.c is present in two revisions.  The definitions named after the   *)
(* functions follow src/unnamed/part_001; where src/unnamed/part_000       *)
(* differs (q_delete_mid, q_delete_dup, q_swap, q_reverse, merge, q_sort)  *)
(* the older body is modelled as well, under the same name with the        *)
(* suffix _v0.                                                             *)
(***************************************************************************)
EXTENDS Integers, Sequences, FiniteSets, TLC

\* ---------------------------------------------------------------- bounds
\* Elements the allocator hands out during a free-running call sequence.
MaxAlloc == 3
\* Longest list the single-call driver starts from; also the arena size.
MaxLen == 6
\* Largest bufsize a caller passes to q_remove_head / q_remove_tail.
MaxBuf == 3
\* Entries of q_sort's pending array when the array is made small enough
\* for a list of MaxLen elements to reach its last entry.
SmallCap == 2

\* ------------------------------------------------------------- addresses
NULL == 0
Elems == 1 .. MaxLen
\* The one struct list_head q_new allocates.
Sentinel == MaxLen + 1
Nodes == Elems \cup {Sentinel}
Ptrs == Nodes \cup {NULL}

\* --------------------------------------------------------------- strings
\* A C string is the sequence of its bytes before the terminator.
NUL == 0
\* What an uninitialised caller buffer holds: some byte that is not NUL.
Junk == 9
\* "a", "ab", "b": the strings the single-call driver stores and inserts.
StrSet == {<<1>>, <<1, 2>>, <<2>>}
\* "a", "b": the strings the free-running driver inserts.
FreeStrSet == {<<1>>, <<2>>}

\* Byte i (0-based) of the C string s, terminator included.
ByteAt(s, i) == IF i < Len(s) THEN s[i + 1] ELSE NUL

RECURSIVE strcmpFrom(_, _, _)
strcmpFrom(a, b, i) ==
    IF ByteAt(a, i) # ByteAt(b, i) THEN ByteAt(a, i) - ByteAt(b, i)
    ELSE IF ByteAt(a, i) = NUL THEN 0
    ELSE strcmpFrom(a, b, i + 1)

\* strcmp(3): the difference of the first differing bytes, 0 when equal.
strcmp(a, b) == strcmpFrom(a, b, 0)

\* size_t arithmetic.  Only the wrap of 0 - 1 matters, so the width is
\* narrowed to what the model checker's integers can hold.
SizeBits == 16
SizeMod == 2 ^ SizeBits
SizeSub(a, b) == (a - b + SizeMod) % SizeMod

\* strncpy(dst, src, n) on a buffer of Len(dst) cells: the first n cells
\* receive the bytes of src and then NULs.  (A call that writes past the
\* end of the buffer is a fault, decided where strncpy is called.)
strncpy(dst, src, n) ==
    [i \in 1 .. Len(dst) |-> IF i <= n THEN ByteAt(src, i - 1) ELSE dst[i]]

\* The C string a buffer holds: its bytes before the first NUL.
RECURSIVE CStrFrom(_, _)
CStrFrom(b, i) ==
    IF i > Len(b) \/ b[i] = NUL THEN <<>>
    ELSE <<b[i]>> \o CStrFrom(b, i + 1)
CStr(b) == CStrFrom(b, 1)

\* ----------------------------------------------------------------- state
VARIABLES
    q,        \* the caller's list handle: Sentinel, or NULL when absent
    nxt,      \* next field of every struct list_head
    prv,      \* prev field of every struct list_head
    val,      \* value field of every element_t (NULL when it has none)
    st,       \* allocator state of every element: "unalloc","live","freed"
    nalloc,   \* elements handed out by malloc so far
    held,     \* elements removed from the list and not yet released
    count,    \* successful inserts minus elements removed or deleted
    last,     \* the call just made: name, arguments, return value, buffer
    fault,    \* "none", or the fault that stopped the program
    driver    \* "free": any call sequence; "once": one call; "small":
              \* one call, q_sort with SmallCap buckets; "done"

vars == <<last, q, nxt, prv, val, st, nalloc, held, count, fault, driver>>

\* The part of memory the list algorithms work on: the links, the allocator
\* state, the elements released during the call (in order), those of them
\* released while a link of the list still pointed to them, whether the
\* call went wrong (a loop that does not end, a second free of one element),
\* and the next field of merge's local list head.
Mem == [nxt |-> nxt, prv |-> prv, st |-> st, rel |-> <<>>, lnk |-> <<>>,
        bad |-> FALSE, loc |-> NULL]

\* Steps a loop over the list may take before it is declared endless.
Fuel == 2 * (MaxLen + 2)

NoCall == [op |-> "none", ret |-> NULL, e |-> NULL, s |-> <<>>,
           sp |-> FALSE, buf |-> <<>>, n |-> 0, rel |-> <<>>, lnk |-> <<>>,
           pend |-> <<>>]

\* The strings the driver passes to an insert.
Args == IF driver = "free" THEN FreeStrSet ELSE StrSet

\* The buffer arguments of a remove: no buffer, or one of bufsize cells.
BufArgs == {<<FALSE, 0>>} \cup {<<TRUE, n>> : n \in 0 .. MaxBuf}

\* Elements the allocator may still hand out.
Arena == IF driver = "free" THEN MaxAlloc ELSE MaxLen

\* Every call is made by the driver, one at a time, while the program runs.
Call ==
    /\ fault = "none"
    /\ driver # "done"
    /\ driver' = IF driver = "free" THEN "free" ELSE "done"

\* x->next = v and x->prev = v.
SetNext(m, x, v) == [m EXCEPT !.nxt[x] = v]
SetPrev(m, x, v) == [m EXCEPT !.prv[x] = v]

\* ---------------------------------------------------------------- list.h
INIT_LIST_HEAD(m, head) ==
    [m EXCEPT !.nxt[head] = head, !.prv[head] = head]

list_empty(m, head) == m.nxt[head] = head

list_add(m, node, head) ==
    LET next == m.nxt[head]
        m1 == [m EXCEPT !.prv[next] = node]
        m2 == [m1 EXCEPT !.nxt[node] = next]
        m3 == [m2 EXCEPT !.prv[node] = head]
    IN  [m3 EXCEPT !.nxt[head] = node]

list_add_tail(m, node, head) ==
    LET prev == m.prv[head]
        m1 == [m EXCEPT !.nxt[prev] = node]
        m2 == [m1 EXCEPT !.nxt[node] = head]
        m3 == [m2 EXCEPT !.prv[node] = prev]
    IN  [m3 EXCEPT !.prv[head] = node]

list_del(m, node) ==
    LET next == m.nxt[node]
        prev == m.prv[node]
        m1 == [m EXCEPT !.prv[next] = prev]
    IN  [m1 EXCEPT !.nxt[prev] = next]

\* ----------------------------------------------------------- observation
\* The nodes met by following next from the node after the sentinel until
\* the sentinel (or NULL, or more steps than there are nodes).
RECURSIVE Walk(_, _, _, _)
Walk(f, head, x, k) ==
    IF x = head \/ x = NULL \/ k = 0 THEN <<>>
    ELSE <<x>> \o Walk(f, head, f[x], k - 1)

Order == IF q = NULL THEN <<>> ELSE Walk(nxt, q, nxt[q], MaxLen + 1)
BackOrder == IF q = NULL THEN <<>> ELSE Walk(prv, q, prv[q], MaxLen + 1)
Linked == {Order[i] : i \in 1 .. Len(Order)}
Values(o) == [i \in 1 .. Len(o) |-> val[o[i]]]

\* The nodes met from x by following the links f, x included.
RECURSIVE Follow(_, _, _, _)
Follow(f, x, seen, k) ==
    IF x \in seen \/ x \notin Nodes \/ k = 0 THEN seen
    ELSE Follow(f, f[x], seen \cup {x}, k - 1)

\* In memory m, a next or prev link of a node that can be reached from the
\* sentinel (forwards or backwards) points to e.
PointedTo(m, e) ==
    \E x \in Follow(m.nxt, Sentinel, {}, MaxLen + 2)
              \cup Follow(m.prv, Sentinel, {}, MaxLen + 2) :
        x # e /\ (m.nxt[x] = e \/ m.prv[x] = e)

\* ------------------------------------------------------------------ Init
EmptyHeap ==
    /\ nxt = [x \in Ptrs |-> NULL]
    /\ prv = [x \in Ptrs |-> NULL]
    /\ val = [x \in Elems |-> NULL]
    /\ st = [x \in Elems |-> "unalloc"]

\* Before q_new: no list, nothing allocated.
Init ==
    /\ q = NULL
    /\ EmptyHeap
    /\ nalloc = 0
    /\ held = {}
    /\ count = 0
    /\ last = NoCall
    /\ fault = "none"
    /\ driver = "free"

\* ----------------------------------------------------------------- q_new
q_new ==
    /\ Call
    /\ q = NULL
    /\ \E ok \in BOOLEAN :
         IF ok
         THEN LET m == INIT_LIST_HEAD(Mem, Sentinel)
              IN  /\ q' = Sentinel
                  /\ nxt' = m.nxt
                  /\ prv' = m.prv
                  /\ last' = [NoCall EXCEPT !.op = "new", !.ret = Sentinel]
         ELSE /\ UNCHANGED <<q, nxt, prv>>
              /\ last' = [NoCall EXCEPT !.op = "new", !.ret = NULL]
    /\ UNCHANGED <<val, st, nalloc, held, count, fault>>

\* ----------------------------------------------------- q_release_element
\* free(e->value); free(e).  Freed memory holds nothing the program may
\* use, so the cell's fields are cleared.
\* q_release_element that frees the string and not the element.
q_release_element_mem_string(m, e) ==
    [m EXCEPT !.rel = Append(m.rel, e),
              !.lnk = IF PointedTo(m, e) THEN Append(m.lnk, e) ELSE m.lnk]

q_release_element_mem(m, e) ==
    [m EXCEPT !.st[e] = "freed",
              !.nxt[e] = NULL,
              !.prv[e] = NULL,
              !.rel = Append(m.rel, e),
              !.lnk = IF PointedTo(m, e) THEN Append(m.lnk, e) ELSE m.lnk,
              !.bad = m.bad \/ m.st[e] # "live"]

\* The caller releases an element it holds, or passes NULL.
q_release_element ==
    /\ Call
    /\ \E e \in held \cup {NULL} :
         IF e = NULL
         THEN /\ fault' = "null"
              /\ last' = [NoCall EXCEPT !.op = "release"]
              /\ UNCHANGED <<nxt, prv, val, st, held>>
         ELSE LET m == q_release_element_mem(Mem, e)
              IN  /\ nxt' = m.nxt
                  /\ prv' = m.prv
                  /\ st' = m.st
                  /\ val' = [val EXCEPT ![e] = NULL]
                  /\ held' = held \ {e}
                  /\ last' = [NoCall EXCEPT !.op = "release", !.e = e,
                                            !.rel = m.rel, !.lnk = m.lnk]
                  /\ UNCHANGED fault
    /\ UNCHANGED <<q, nalloc, count>>

\* ---------------------------------------------------------------- q_free
RECURSIVE q_free_loop(_, _, _, _, _)
q_free_loop(m, head, node, safe, k) ==
    IF node = head THEN m
    ELSE IF k = 0 THEN [m EXCEPT !.bad = TRUE]
    ELSE LET m1 == q_release_element_mem(m, node)
         IN  q_free_loop(m1, head, safe, m1.nxt[safe], k - 1)

\* q_free that frees the list head and none of the elements.
q_free_mem_head_only(m, head) ==
    [m EXCEPT !.nxt[head] = NULL, !.prv[head] = NULL]

q_free_mem(m, head) ==
    LET node == m.nxt[head]
        m1 == q_free_loop(m, head, node, m.nxt[node], Fuel)
    IN  [m1 EXCEPT !.nxt[head] = NULL, !.prv[head] = NULL]

\* The released elements lose their strings with them.
ValAfter(m) ==
    [x \in Elems |-> IF m.st[x] = "freed" THEN NULL ELSE val[x]]

\* What a call that ran on memory leaves behind.
Settle(m) ==
    /\ nxt' = m.nxt
    /\ prv' = m.prv
    /\ st' = m.st
    /\ val' = ValAfter(m)
    /\ fault' = IF m.bad THEN "corrupt" ELSE fault

\* After q_free the caller has no list any more.
q_free ==
    /\ Call
    /\ IF q = NULL
       THEN /\ UNCHANGED <<q, nxt, prv, val, st, count, fault>>
            /\ last' = [NoCall EXCEPT !.op = "free"]
       ELSE LET m == q_free_mem(Mem, q)
            IN  /\ Settle(m)
                /\ q' = NULL
                /\ count' = 0
                /\ last' = [NoCall EXCEPT !.op = "free", !.n = Len(m.rel),
                                          !.rel = m.rel, !.lnk = m.lnk]
    /\ UNCHANGED <<nalloc, held>>

\* --------------------------------------------------------- q_insert_head
\* malloc and strdup each succeed or fail as the harness decides.
AllocOutcomes == {"ok", "no_element", "no_string"}

\* strdup(s): a fresh copy of the bytes of s up to its terminator.
strdup(s) == CStr(Append(s, NUL))

\* q_insert_head that splices with list_add_tail.
q_insert_head_at_tail ==
    /\ Call
    /\ \E s \in Args, a \in AllocOutcomes :
         LET e == nalloc + 1
             called == [NoCall EXCEPT !.op = "insert_head", !.s = s]
         IN  IF q = NULL \/ a = "no_element"
             THEN /\ last' = [called EXCEPT !.ret = FALSE]
                  /\ UNCHANGED <<nxt, prv, val, st, nalloc, count>>
             ELSE /\ nalloc < Arena
                  /\ nalloc' = e
                  /\ IF a = "no_string"
                     THEN /\ st' = [st EXCEPT ![e] = "freed"]
                          /\ last' = [called EXCEPT !.ret = FALSE, !.e = e]
                          /\ UNCHANGED <<nxt, prv, val, count>>
                     ELSE LET m == list_add_tail(Mem, e, q)
                          IN  /\ nxt' = m.nxt
                              /\ prv' = m.prv
                              /\ val' = [val EXCEPT ![e] = strdup(s)]
                              /\ st' = [st EXCEPT ![e] = "live"]
                              /\ count' = count + 1
                              /\ last' = [called EXCEPT !.ret = TRUE, !.e = e]
    /\ UNCHANGED <<q, held, fault>>

q_insert_head ==
    /\ Call
    /\ \E s \in Args, a \in AllocOutcomes :
         LET e == nalloc + 1
             called == [NoCall EXCEPT !.op = "insert_head", !.s = s]
         IN  IF q = NULL \/ a = "no_element"
             THEN /\ last' = [called EXCEPT !.ret = FALSE]
                  /\ UNCHANGED <<nxt, prv, val, st, nalloc, count>>
             ELSE /\ nalloc < Arena
                  /\ nalloc' = e
                  /\ IF a = "no_string"
                     THEN /\ st' = [st EXCEPT ![e] = "freed"]
                          /\ last' = [called EXCEPT !.ret = FALSE, !.e = e]
                          /\ UNCHANGED <<nxt, prv, val, count>>
                     ELSE LET m == list_add(Mem, e, q)
                          IN  /\ nxt' = m.nxt
                              /\ prv' = m.prv
                              /\ val' = [val EXCEPT ![e] = strdup(s)]
                              /\ st' = [st EXCEPT ![e] = "live"]
                              /\ count' = count + 1
                              /\ last' = [called EXCEPT !.ret = TRUE, !.e = e]
    /\ UNCHANGED <<q, held, fault>>

\* --------------------------------------------------------- q_insert_tail
\* q_insert_tail that returns without free(element) when strdup fails.
q_insert_tail_leak ==
    /\ Call
    /\ \E s \in Args, a \in AllocOutcomes :
         LET e == nalloc + 1
             called == [NoCall EXCEPT !.op = "insert_tail", !.s = s]
         IN  IF q = NULL \/ a = "no_element"
             THEN /\ last' = [called EXCEPT !.ret = FALSE]
                  /\ UNCHANGED <<nxt, prv, val, st, nalloc, count>>
             ELSE /\ nalloc < Arena
                  /\ nalloc' = e
                  /\ IF a = "no_string"
                     THEN /\ st' = [st EXCEPT ![e] = "live"]
                          /\ last' = [called EXCEPT !.ret = FALSE, !.e = e]
                          /\ UNCHANGED <<nxt, prv, val, count>>
                     ELSE LET m == list_add_tail(Mem, e, q)
                          IN  /\ nxt' = m.nxt
                              /\ prv' = m.prv
                              /\ val' = [val EXCEPT ![e] = strdup(s)]
                              /\ st' = [st EXCEPT ![e] = "live"]
                              /\ count' = count + 1
                              /\ last' = [called EXCEPT !.ret = TRUE, !.e = e]
    /\ UNCHANGED <<q, held, fault>>

q_insert_tail ==
    /\ Call
    /\ \E s \in Args, a \in AllocOutcomes :
         LET e == nalloc + 1
             called == [NoCall EXCEPT !.op = "insert_tail", !.s = s]
         IN  IF q = NULL \/ a = "no_element"
             THEN /\ last' = [called EXCEPT !.ret = FALSE]
                  /\ UNCHANGED <<nxt, prv, val, st, nalloc, count>>
             ELSE /\ nalloc < Arena
                  /\ nalloc' = e
                  /\ IF a = "no_string"
                     THEN /\ st' = [st EXCEPT ![e] = "freed"]
                          /\ last' = [called EXCEPT !.ret = FALSE, !.e = e]
                          /\ UNCHANGED <<nxt, prv, val, count>>
                     ELSE LET m == list_add_tail(Mem, e, q)
                          IN  /\ nxt' = m.nxt
                              /\ prv' = m.prv
                              /\ val' = [val EXCEPT ![e] = strdup(s)]
                              /\ st' = [st EXCEPT ![e] = "live"]
                              /\ count' = count + 1
                              /\ last' = [called EXCEPT !.ret = TRUE, !.e = e]
    /\ UNCHANGED <<q, held, fault>>

\* --------------------------------------------------------- q_remove_head
\* if (sp) { strncpy(sp, element->value, bufsize - 1);
\*           sp[bufsize - 1] = '\0'; }
\* on a caller buffer of exactly bufsize cells.  over: a cell past the end
\* of the buffer was written.
CopyOut_unterminated(value, bufsize) ==
    LET n == SizeSub(bufsize, 1)
        b0 == [i \in 1 .. bufsize |-> Junk]
        b1 == strncpy(b0, value, n)
    IN  [buf |-> b1, over |-> n >= bufsize]

CopyOut(value, bufsize) ==
    LET n == SizeSub(bufsize, 1)
        b0 == [i \in 1 .. bufsize |-> Junk]
        b1 == strncpy(b0, value, n)
        b2 == [i \in 1 .. bufsize |-> IF i = n + 1 THEN NUL ELSE b1[i]]
    IN  [buf |-> b2, over |-> n >= bufsize]

\* The indices of sp the two statements write: strncpy writes exactly
\* bufsize - 1 bytes (the copy, then padding), the assignment one more.
Written(bufsize) == 0 .. SizeSub(bufsize, 1)

\* The common tail of q_remove_head and q_remove_tail once the element is
\* chosen: unlink it, copy its string out, hand it to the caller.
RemoveEntry(name, e, sp, bufsize) ==
    LET m == list_del(Mem, e)
        c == CopyOut(val[e], bufsize)
        called == [NoCall EXCEPT !.op = name, !.n = bufsize, !.sp = sp]
    IN  /\ nxt' = m.nxt
        /\ prv' = m.prv
        /\ held' = held \cup {e}
        /\ count' = count - 1
        /\ last' = [called EXCEPT !.ret = e, !.e = e,
                                  !.buf = IF sp THEN c.buf ELSE <<>>]
        /\ fault' = IF sp /\ c.over THEN "overflow" ELSE fault

\* The caller releases the element it holds before it removes another.
q_remove_head ==
    /\ Call
    /\ held = {}
    /\ \E b \in BufArgs :
         IF q = NULL \/ list_empty(Mem, q)
         THEN /\ last' = [NoCall EXCEPT !.op = "remove_head", !.n = b[2],
                                        !.sp = b[1]]
              /\ UNCHANGED <<nxt, prv, held, count, fault>>
         ELSE RemoveEntry("remove_head", nxt[q], b[1], b[2])
    /\ UNCHANGED <<q, val, st, nalloc>>

\* --------------------------------------------------------- q_remove_tail
\* q_remove_tail that takes list_first_entry.
q_remove_tail_first ==
    /\ Call
    /\ held = {}
    /\ \E b \in BufArgs :
         IF q = NULL \/ list_empty(Mem, q)
         THEN /\ last' = [NoCall EXCEPT !.op = "remove_tail", !.n = b[2],
                                        !.sp = b[1]]
              /\ UNCHANGED <<nxt, prv, held, count, fault>>
         ELSE RemoveEntry("remove_tail", nxt[q], b[1], b[2])
    /\ UNCHANGED <<q, val, st, nalloc>>

q_remove_tail ==
    /\ Call
    /\ held = {}
    /\ \E b \in BufArgs :
         IF q = NULL \/ list_empty(Mem, q)
         THEN /\ last' = [NoCall EXCEPT !.op = "remove_tail", !.n = b[2],
                                        !.sp = b[1]]
              /\ UNCHANGED <<nxt, prv, held, count, fault>>
         ELSE RemoveEntry("remove_tail", prv[q], b[1], b[2])
    /\ UNCHANGED <<q, val, st, nalloc>>

\* ---------------------------------------------------------------- q_size
RECURSIVE q_size_loop(_, _, _, _, _)
q_size_loop(m, head, node, len, k) ==
    IF node = head \/ k = 0 THEN len
    ELSE q_size_loop(m, head, m.nxt[node], len + 1, k - 1)

\* q_size counting the sentinel as well.
q_size_mem_plus(m, head) ==
    IF head = NULL THEN 0 ELSE q_size_loop(m, head, m.nxt[head], 1, Fuel)

q_size_mem(m, head) ==
    IF head = NULL THEN 0 ELSE q_size_loop(m, head, m.nxt[head], 0, Fuel)

q_size ==
    /\ Call
    /\ last' = [NoCall EXCEPT !.op = "size", !.ret = q_size_mem(Mem, q)]
    /\ UNCHANGED <<q, nxt, prv, val, st, nalloc, held, count, fault>>

\* ---------------------------------------------------------- q_delete_mid
\* The loop of q_delete_mid without its inner test: both pointers move
\* before they are compared.
RECURSIVE q_delete_mid_loop_cross(_, _, _, _)
q_delete_mid_loop_cross(m, forward, backward, k) ==
    IF k = 0 THEN NULL
    ELSE LET f1 == m.nxt[forward]
             b1 == m.prv[backward]
         IN  IF f1 # b1 THEN q_delete_mid_loop_cross(m, f1, b1, k - 1)
             ELSE f1

\* do { forward = forward->next; if (forward == backward) break;
\*      backward = backward->prev; } while (forward != backward);
RECURSIVE q_delete_mid_loop(_, _, _, _)
q_delete_mid_loop(m, forward, backward, k) ==
    IF k = 0 THEN NULL
    ELSE LET f1 == m.nxt[forward]
             b1 == m.prv[backward]
         IN  IF f1 = backward THEN f1
             ELSE IF f1 # b1 THEN q_delete_mid_loop(m, f1, b1, k - 1)
             ELSE f1

\* q_delete_mid with backward starting on the last element.
q_delete_mid_node_early(m, head) ==
    q_delete_mid_loop(m, head, m.prv[head], Fuel)

\* The node q_delete_mid settles on.
q_delete_mid_node(m, head) == q_delete_mid_loop(m, head, head, Fuel)

\* while (forward != backward) { backward = backward->prev;
\*     if (forward == backward) break; forward = forward->next; }
RECURSIVE q_delete_mid_loop_v0(_, _, _, _)
q_delete_mid_loop_v0(m, forward, backward, k) ==
    IF k = 0 THEN NULL
    ELSE IF forward = backward THEN forward
    ELSE LET b1 == m.prv[backward]
         IN  IF forward = b1 THEN forward
             ELSE q_delete_mid_loop_v0(m, m.nxt[forward], b1, k - 1)

q_delete_mid_node_v0(m, head) ==
    q_delete_mid_loop_v0(m, m.nxt[head], head, Fuel)

\* q_delete_mid without list_del(forward).
DeleteNode_linked(m, forward) ==
    IF forward \notin Elems THEN [m EXCEPT !.bad = TRUE]
    ELSE q_release_element_mem(m, forward)

\* list_del(forward); q_release_element(list_entry(forward, ...)).
DeleteNode(m, forward) ==
    IF forward \notin Elems THEN [m EXCEPT !.bad = TRUE]
    ELSE q_release_element_mem(list_del(m, forward), forward)

\* What a deleting call leaves: memory, the count, the record of the call.
Deleted(name, m, e) ==
    /\ Settle(m)
    /\ count' = count - Len(m.rel)
    /\ last' = [NoCall EXCEPT !.op = name, !.ret = TRUE, !.e = e,
                              !.n = Len(m.rel), !.rel = m.rel,
                              !.lnk = m.lnk]

\* q_delete_mid without its !head test: list_empty(head) reads through a
\* null pointer.
q_delete_mid_unchecked ==
    /\ Call
    /\ IF q = NULL
       THEN /\ fault' = "null"
            /\ last' = [NoCall EXCEPT !.op = "delete_mid"]
            /\ UNCHANGED <<nxt, prv, val, st, count>>
       ELSE IF list_empty(Mem, q)
       THEN /\ last' = [NoCall EXCEPT !.op = "delete_mid", !.ret = FALSE]
            /\ UNCHANGED <<nxt, prv, val, st, count, fault>>
       ELSE LET forward == q_delete_mid_node(Mem, q)
            IN  Deleted("delete_mid", DeleteNode(Mem, forward), forward)
    /\ UNCHANGED <<q, nalloc, held>>

q_delete_mid ==
    /\ Call
    /\ IF q = NULL \/ list_empty(Mem, q)
       THEN /\ last' = [NoCall EXCEPT !.op = "delete_mid", !.ret = FALSE]
            /\ UNCHANGED <<nxt, prv, val, st, count, fault>>
       ELSE LET forward == q_delete_mid_node(Mem, q)
            IN  Deleted("delete_mid", DeleteNode(Mem, forward), forward)
    /\ UNCHANGED <<q, nalloc, held>>

q_delete_mid_v0 ==
    /\ Call
    /\ IF q = NULL \/ list_empty(Mem, q)
       THEN /\ last' = [NoCall EXCEPT !.op = "delete_mid", !.ret = FALSE]
            /\ UNCHANGED <<nxt, prv, val, st, count, fault>>
       ELSE LET forward == q_delete_mid_node_v0(Mem, q)
            IN  Deleted("delete_mid", DeleteNode(Mem, forward), forward)
    /\ UNCHANGED <<q, nalloc, held>>

\* ---------------------------------------------------------- q_delete_dup
\* q_delete_dup that closes a run with prev->next = &safe->list only.
RECURSIVE q_delete_dup_loop_half(_, _, _, _, _, _, _)
q_delete_dup_loop_half(m, head, entry, safe, prev, is_dup, k) ==
    IF entry = head THEN m
    ELSE IF k = 0 THEN [m EXCEPT !.bad = TRUE]
    ELSE IF safe # head /\ strcmp(val[entry], val[safe]) = 0
    THEN q_delete_dup_loop_half(q_release_element_mem(m, entry), head,
                                safe, m.nxt[safe], prev, TRUE, k - 1)
    ELSE IF is_dup
    THEN LET m1 == q_release_element_mem(m, entry)
             m2 == SetNext(m1, prev, safe)
         IN  q_delete_dup_loop_half(m2, head, safe, m2.nxt[safe], prev,
                                    FALSE, k - 1)
    ELSE q_delete_dup_loop_half(m, head, safe, m.nxt[safe], m.nxt[prev],
                                FALSE, k - 1)

\* One pass of list_for_each_entry_safe (entry, safe, head, list): the
\* body, then entry = safe, safe = safe->next.
RECURSIVE q_delete_dup_loop(_, _, _, _, _, _, _)
q_delete_dup_loop(m, head, entry, safe, prev, is_dup, k) ==
    IF entry = head THEN m
    ELSE IF k = 0 THEN [m EXCEPT !.bad = TRUE]
    ELSE IF safe # head /\ strcmp(val[entry], val[safe]) = 0
    THEN q_delete_dup_loop(q_release_element_mem(m, entry), head,
                           safe, m.nxt[safe], prev, TRUE, k - 1)
    ELSE IF is_dup
    THEN LET m1 == q_release_element_mem(m, entry)
             m2 == SetNext(m1, prev, safe)
             m3 == SetPrev(m2, safe, prev)
         IN  q_delete_dup_loop(m3, head, safe, m3.nxt[safe], prev,
                               FALSE, k - 1)
    ELSE q_delete_dup_loop(m, head, safe, m.nxt[safe], m.nxt[prev],
                           FALSE, k - 1)

\* q_delete_dup that keeps the last element of every run.
RECURSIVE q_delete_dup_loop_keep(_, _, _, _, _, _, _)
q_delete_dup_loop_keep(m, head, entry, safe, prev, is_dup, k) ==
    IF entry = head THEN m
    ELSE IF k = 0 THEN [m EXCEPT !.bad = TRUE]
    ELSE IF safe # head /\ strcmp(val[entry], val[safe]) = 0
    THEN q_delete_dup_loop_keep(q_release_element_mem(m, entry), head,
                                safe, m.nxt[safe], prev, TRUE, k - 1)
    ELSE IF is_dup
    THEN LET m2 == SetNext(m, prev, entry)
             m3 == SetPrev(m2, entry, prev)
         IN  q_delete_dup_loop_keep(m3, head, safe, m3.nxt[safe], entry,
                                    FALSE, k - 1)
    ELSE q_delete_dup_loop_keep(m, head, safe, m.nxt[safe], m.nxt[prev],
                                FALSE, k - 1)

q_delete_dup_mem_keep(m, head) ==
    LET entry == m.nxt[head]
    IN  q_delete_dup_loop_keep(m, head, entry, m.nxt[entry], head, FALSE,
                               Fuel)

q_delete_dup_mem(m, head) ==
    LET entry == m.nxt[head]
    IN  q_delete_dup_loop(m, head, entry, m.nxt[entry], head, FALSE, Fuel)

\* The inner while of the older q_delete_dup: release the run node by
\* node.  Returns the memory, node and prev_element it ends with.
RECURSIVE q_delete_dup_run_v0(_, _, _, _, _, _)
q_delete_dup_run_v0(m, head, node, element, prev_element, k) ==
    IF k > 0 /\ node # head /\ strcmp(val[element], val[prev_element]) = 0
    THEN LET n1 == m.nxt[node]
         IN  q_delete_dup_run_v0(q_release_element_mem(m, prev_element),
                                 head, n1, n1, element, k - 1)
    ELSE [m |-> IF k = 0 THEN [m EXCEPT !.bad = TRUE] ELSE m,
          node |-> node, prev_element |-> prev_element]

RECURSIVE q_delete_dup_loop_v0(_, _, _, _, _)
q_delete_dup_loop_v0(m, head, node, prev, k) ==
    IF node = head THEN m
    ELSE IF k = 0 THEN [m EXCEPT !.bad = TRUE]
    ELSE LET element == node
             prev_element == m.prv[node]
         IN  IF strcmp(val[element], val[prev_element]) = 0
             THEN LET r == q_delete_dup_run_v0(m, head, node, element,
                                               prev_element, Fuel)
                      m1 == q_release_element_mem(r.m, r.prev_element)
                      m2 == SetNext(m1, prev, r.node)
                      m3 == SetPrev(m2, r.node, prev)
                      n1 == IF r.node # head THEN m3.nxt[r.node] ELSE r.node
                  IN  q_delete_dup_loop_v0(m3, head, n1, prev, k - 1)
             ELSE q_delete_dup_loop_v0(m, head, m.nxt[node], m.nxt[prev],
                                       k - 1)

q_delete_dup_mem_v0(m, head) ==
    q_delete_dup_loop_v0(m, head, m.nxt[m.nxt[head]], head, Fuel)

q_delete_dup ==
    /\ Call
    /\ IF q = NULL
       THEN /\ last' = [NoCall EXCEPT !.op = "delete_dup", !.ret = FALSE]
            /\ UNCHANGED <<nxt, prv, val, st, count, fault>>
       ELSE Deleted("delete_dup", q_delete_dup_mem(Mem, q), NULL)
    /\ UNCHANGED <<q, nalloc, held>>

q_delete_dup_v0 ==
    /\ Call
    /\ IF q = NULL
       THEN /\ last' = [NoCall EXCEPT !.op = "delete_dup", !.ret = FALSE]
            /\ UNCHANGED <<nxt, prv, val, st, count, fault>>
       ELSE Deleted("delete_dup", q_delete_dup_mem_v0(Mem, q), NULL)
    /\ UNCHANGED <<q, nalloc, held>>

\* ---------------------------------------------------------------- q_swap
RECURSIVE q_swap_loop(_, _, _, _)
q_swap_loop(m, head, node, k) ==
    IF ~(node # head /\ m.nxt[node] # head) THEN m
    ELSE IF k = 0 THEN [m EXCEPT !.bad = TRUE]
    ELSE LET next == m.nxt[node]
             m1 == SetNext(m, m.prv[node], next)
             m2 == SetPrev(m1, m1.nxt[next], node)
             m3 == SetNext(m2, node, m2.nxt[next])
             m4 == SetNext(m3, next, node)
             m5 == SetPrev(m4, next, m4.prv[node])
             m6 == SetPrev(m5, node, next)
         IN  q_swap_loop(m6, head, m6.nxt[node], k - 1)

\* q_swap whose loop starts on the second element.
q_swap_mem_late(m, head) == q_swap_loop(m, head, m.nxt[m.nxt[head]], Fuel)

q_swap_mem(m, head) == q_swap_loop(m, head, m.nxt[head], Fuel)

RECURSIVE q_swap_loop_v0(_, _, _, _, _)
q_swap_loop_v0(m, head, node, toggle, k) ==
    IF node = head THEN m
    ELSE IF k = 0 THEN [m EXCEPT !.bad = TRUE]
    ELSE IF toggle
    THEN LET prev == m.prv[node]
             m1 == SetNext(m, prev, m.nxt[node])
             m2 == SetPrev(m1, node, m1.prv[prev])
             m3 == SetPrev(m2, m2.nxt[node], prev)
             m4 == SetNext(m3, m3.prv[prev], node)
             m5 == SetPrev(m4, prev, node)
             m6 == SetNext(m5, node, prev)
         IN  q_swap_loop_v0(m6, head, m6.nxt[prev], FALSE, k - 1)
    ELSE q_swap_loop_v0(m, head, m.nxt[node], TRUE, k - 1)

q_swap_mem_v0(m, head) == q_swap_loop_v0(m, head, m.nxt[head], FALSE, Fuel)

\* What a call that only relinks leaves behind.
Relinked(name, m) ==
    /\ Settle(m)
    /\ last' = [NoCall EXCEPT !.op = name, !.rel = m.rel]

Untouched(name) ==
    /\ last' = [NoCall EXCEPT !.op = name]
    /\ UNCHANGED <<nxt, prv, val, st, fault>>

\* q_swap that exchanges the value pointers of each pair and relinks
\* nothing.
RECURSIVE q_swap_values_loop(_, _, _, _)
q_swap_values_loop(v, head, node, k) ==
    IF node = head \/ nxt[node] = head \/ k = 0 THEN v
    ELSE LET next == nxt[node]
         IN  q_swap_values_loop([v EXCEPT ![node] = v[next],
                                          ![next] = v[node]],
                                head, nxt[next], k - 1)

q_swap_values ==
    /\ Call
    /\ IF q = NULL \/ list_empty(Mem, q)
       THEN Untouched("swap")
       ELSE /\ val' = q_swap_values_loop(val, q, nxt[q], Fuel)
            /\ last' = [NoCall EXCEPT !.op = "swap"]
            /\ UNCHANGED <<nxt, prv, st, fault>>
    /\ UNCHANGED <<q, nalloc, held, count>>

q_swap ==
    /\ Call
    /\ IF q = NULL \/ list_empty(Mem, q)
       THEN Untouched("swap")
       ELSE Relinked("swap", q_swap_mem(Mem, q))
    /\ UNCHANGED <<q, nalloc, held, count>>

q_swap_v0 ==
    /\ Call
    /\ IF q = NULL \/ list_empty(Mem, q)
       THEN Untouched("swap")
       ELSE Relinked("swap", q_swap_mem_v0(Mem, q))
    /\ UNCHANGED <<q, nalloc, held, count>>

\* ------------------------------------------------------------- q_reverse
\* do { node->next = node->prev; node->prev = next; node = next;
\*      next = node->next; } while (node != head);
RECURSIVE q_reverse_loop(_, _, _, _, _)
q_reverse_loop(m, head, node, next, k) ==
    IF k = 0 THEN [m EXCEPT !.bad = TRUE]
    ELSE LET m1 == SetNext(m, node, m.prv[node])
             m2 == SetPrev(m1, node, next)
         IN  IF next # head
             THEN q_reverse_loop(m2, head, next, m2.nxt[next], k - 1)
             ELSE m2

\* q_reverse whose loop starts on the first element, not on the sentinel.
q_reverse_mem_inner(m, head) ==
    LET node == m.nxt[head]
    IN  q_reverse_loop(m, head, node, m.nxt[node], Fuel)

q_reverse_mem(m, head) == q_reverse_loop(m, head, head, m.nxt[head], Fuel)

\* list_for_each_safe (node, safe, head): exchange node's two links.
RECURSIVE q_reverse_loop_v0(_, _, _, _, _)
q_reverse_loop_v0(m, head, node, safe, k) ==
    IF node = head THEN m
    ELSE IF k = 0 THEN [m EXCEPT !.bad = TRUE]
    ELSE LET next == m.nxt[node]
             prev == m.prv[node]
             m1 == SetNext(m, node, prev)
             m2 == SetPrev(m1, node, next)
         IN  q_reverse_loop_v0(m2, head, safe, m2.nxt[safe], k - 1)

q_reverse_mem_v0(m, head) ==
    LET node == m.nxt[head]
        m1 == q_reverse_loop_v0(m, head, node, m.nxt[node], Fuel)
        next == m1.nxt[head]
        prev == m1.prv[head]
        m2 == SetNext(m1, head, prev)
    IN  SetPrev(m2, head, next)

q_reverse ==
    /\ Call
    /\ IF q = NULL \/ list_empty(Mem, q)
       THEN Untouched("reverse")
       ELSE Relinked("reverse", q_reverse_mem(Mem, q))
    /\ UNCHANGED <<q, nalloc, held, count>>

q_reverse_v0 ==
    /\ Call
    /\ IF q = NULL \/ list_empty(Mem, q)
       THEN Untouched("reverse")
       ELSE Relinked("reverse", q_reverse_mem_v0(Mem, q))
    /\ UNCHANGED <<q, nalloc, held, count>>

\* ----------------------------------------------------------------- merge
\* The address of merge's local struct list_head (part_001) or of its local
\* head pointer (part_000).
Local == 0 - 1

\* tail->next = v, where tail may be the local head.
SetTail(m, tail, v) ==
    IF tail = Local THEN [m EXCEPT !.loc = v] ELSE SetNext(m, tail, v)

\* (uintptr_t) a | (uintptr_t) b
RECURSIVE BitOr(_, _)
BitOr(a, b) ==
    IF a = 0 THEN b
    ELSE IF b = 0 THEN a
    ELSE (IF a % 2 = 1 \/ b % 2 = 1 THEN 1 ELSE 0)
         + 2 * BitOr(a \div 2, b \div 2)

\* merge that ends with tail->next = a: what is left of b is dropped.
RECURSIVE merge_loop_lose(_, _, _, _, _)
merge_loop_lose(m, a, b, tail, k) ==
    IF a # NULL /\ b # NULL /\ k > 0
    THEN IF strcmp(val[a], val[b]) <= 0
         THEN merge_loop_lose(SetTail(m, tail, a), m.nxt[a], b, a, k - 1)
         ELSE merge_loop_lose(SetTail(m, tail, b), a, m.nxt[b], b, k - 1)
    ELSE LET m1 == SetTail(m, tail, a)
         IN  IF k = 0 THEN [m1 EXCEPT !.bad = TRUE] ELSE m1

RECURSIVE merge_loop(_, _, _, _, _)
merge_loop(m, a, b, tail, k) ==
    IF a # NULL /\ b # NULL /\ k > 0
    THEN IF strcmp(val[a], val[b]) <= 0
         THEN merge_loop(SetTail(m, tail, a), m.nxt[a], b, a, k - 1)
         ELSE merge_loop(SetTail(m, tail, b), a, m.nxt[b], b, k - 1)
    ELSE LET m1 == SetTail(m, tail, BitOr(a, b))
         IN  IF k = 0 THEN [m1 EXCEPT !.bad = TRUE] ELSE m1

\* Returns the memory after the merge and the head of the merged chain.
merge(m, a, b) ==
    LET m1 == merge_loop([m EXCEPT !.loc = NULL], a, b, Local, Fuel)
    IN  [m |-> m1, head |-> m1.loc]

\* The older merge: tail is the address of the pointer to write next.
RECURSIVE merge_loop_v0(_, _, _, _, _)
merge_loop_v0(m, a, b, tail, k) ==
    IF k = 0 THEN [m EXCEPT !.bad = TRUE]
    ELSE IF strcmp(val[a], val[b]) <= 0
    THEN LET m1 == SetTail(m, tail, a)
             a1 == m1.nxt[a]
         IN  IF a1 = NULL THEN SetTail(m1, a, b)
             ELSE merge_loop_v0(m1, a1, b, a, k - 1)
    ELSE LET m1 == SetTail(m, tail, b)
             b1 == m1.nxt[b]
         IN  IF b1 = NULL THEN SetTail(m1, b, a)
             ELSE merge_loop_v0(m1, a, b1, b, k - 1)

merge_v0(m, a, b) ==
    IF a = NULL \/ b = NULL
    THEN [m |-> m, head |-> IF a # NULL THEN a ELSE b]
    ELSE LET m1 == merge_loop_v0([m EXCEPT !.loc = NULL], a, b, Local, Fuel)
         IN  [m |-> m1, head |-> m1.loc]

\* ----------------------------------------------------------- merge_final
RECURSIVE merge_final_loop(_, _, _, _, _)
merge_final_loop(m, a, b, tail, k) ==
    IF a # NULL /\ b # NULL /\ k > 0
    THEN IF strcmp(val[a], val[b]) <= 0
         THEN merge_final_loop(SetPrev(SetNext(m, tail, a), a, tail),
                               m.nxt[a], b, a, k - 1)
         ELSE merge_final_loop(SetPrev(SetNext(m, tail, b), b, tail),
                               a, m.nxt[b], b, k - 1)
    ELSE [m |-> IF k = 0 THEN [m EXCEPT !.bad = TRUE] ELSE m,
          a |-> a, b |-> b, tail |-> tail]

\* while (tail->next) { tail->next->prev = tail; tail = tail->next; }
\* Returns the memory and the last node of the chain.
RECURSIVE RestorePrev(_, _, _)
RestorePrev(m, tail, k) ==
    IF m.nxt[tail] = NULL THEN [m |-> m, tail |-> tail]
    ELSE IF k = 0 THEN [m |-> [m EXCEPT !.bad = TRUE], tail |-> tail]
    ELSE RestorePrev(SetPrev(m, m.nxt[tail], tail), m.nxt[tail], k - 1)

\* merge_final without its last assignment, head->prev = tail.
merge_final_open(m, head, a, b) ==
    LET r == merge_final_loop(m, a, b, head, Fuel)
        m1 == SetNext(r.m, r.tail, BitOr(r.a, r.b))
        w == RestorePrev(m1, r.tail, Fuel)
    IN  SetNext(w.m, w.tail, head)

merge_final(m, head, a, b) ==
    LET r == merge_final_loop(m, a, b, head, Fuel)
        m1 == SetNext(r.m, r.tail, BitOr(r.a, r.b))
        w == RestorePrev(m1, r.tail, Fuel)
        m2 == SetNext(w.m, w.tail, head)
    IN  SetPrev(m2, head, w.tail)

\* ---------------------------------------------------------------- q_sort
SORT_BUFSIZE == 32

\* The number of entries of the pending array in this run.
Buckets == IF driver = "small" THEN SmallCap ELSE SORT_BUFSIZE

\* for (i = 0; i < cap && pending[i]; i++)
\*     { result = merge(pending[i], result); pending[i] = NULL; }
\* The carry loop without pending[i] = NULL.
RECURSIVE q_sort_carry_keep(_, _, _, _, _)
q_sort_carry_keep(m, pending, result, i, cap) ==
    IF i < cap /\ pending[i] # NULL
    THEN LET r == merge(m, pending[i], result)
         IN  IF r.m.bad
             THEN [m |-> r.m, pending |-> pending, result |-> r.head, i |-> i]
             ELSE q_sort_carry_keep(r.m, pending, r.head, i + 1, cap)
    ELSE [m |-> m, pending |-> pending, result |-> result, i |-> i]

RECURSIVE q_sort_carry(_, _, _, _, _)
q_sort_carry(m, pending, result, i, cap) ==
    IF i < cap /\ pending[i] # NULL
    THEN LET r == merge(m, pending[i], result)
         IN  IF r.m.bad
             THEN [m |-> r.m, pending |-> pending, result |-> r.head, i |-> i]
             ELSE
             q_sort_carry(r.m, [pending EXCEPT ![i] = NULL], r.head,
                          i + 1, cap)
    ELSE [m |-> m, pending |-> pending, result |-> result, i |-> i]

\* while (result) { next = result->next; result->next = NULL; carry;
\*     if (i == cap) i--; pending[i] = result; result = next; }
RECURSIVE q_sort_consume(_, _, _, _, _)
q_sort_consume(m, pending, result, cap, k) ==
    IF result = NULL THEN [m |-> m, pending |-> pending]
    ELSE IF k = 0 THEN [m |-> [m EXCEPT !.bad = TRUE], pending |-> pending]
    ELSE LET next == m.nxt[result]
             c == q_sort_carry(SetNext(m, result, NULL), pending, result,
                               0, cap)
             i == IF c.i = cap THEN c.i - 1 ELSE c.i
         IN  q_sort_consume(c.m, [c.pending EXCEPT ![i] = c.result], next,
                            cap, k - 1)

\* for (i = 0; i < lim; i++) result = merge(pending[i], result);
\* (a merge that went wrong ends the evaluation: the call has failed)
RECURSIVE q_sort_collect(_, _, _, _, _)
q_sort_collect(m, pending, result, i, lim) ==
    IF i < lim
    THEN LET r == merge(m, pending[i], result)
         IN  IF r.m.bad THEN [m |-> r.m, result |-> r.head]
             ELSE q_sort_collect(r.m, pending, r.head, i + 1, lim)
    ELSE [m |-> m, result |-> result]

\* q_sort past its first test, with a pending array of cap entries.
q_sort_mem(m, head, cap) ==
    LET pending == [i \in 0 .. cap - 1 |-> NULL]
        result == m.nxt[head]
        m1 == SetNext(m, m.prv[head], NULL)
        c == q_sort_consume(m1, pending, result, cap, Fuel)
        f == q_sort_collect(c.m, c.pending, NULL, 0, cap - 1)
    IN  merge_final(f.m, head, f.result, c.pending[cap - 1])

\* The older q_sort: the same loops over merge_v0, every bucket collected
\* by merge, and the prev links restored in q_sort itself.
RECURSIVE q_sort_carry_v0(_, _, _, _, _)
q_sort_carry_v0(m, array, result, i, cap) ==
    IF i < cap /\ array[i] # NULL
    THEN LET r == merge_v0(m, array[i], result)
         IN  IF r.m.bad
             THEN [m |-> r.m, array |-> array, result |-> r.head, i |-> i]
             ELSE
             q_sort_carry_v0(r.m, [array EXCEPT ![i] = NULL], r.head,
                             i + 1, cap)
    ELSE [m |-> m, array |-> array, result |-> result, i |-> i]

RECURSIVE q_sort_consume_v0(_, _, _, _, _)
q_sort_consume_v0(m, array, result, cap, k) ==
    IF result = NULL THEN [m |-> m, array |-> array]
    ELSE IF k = 0 THEN [m |-> [m EXCEPT !.bad = TRUE], array |-> array]
    ELSE LET next == m.nxt[result]
             c == q_sort_carry_v0(SetNext(m, result, NULL), array, result,
                                  0, cap)
             i == IF c.i = cap THEN c.i - 1 ELSE c.i
         IN  q_sort_consume_v0(c.m, [c.array EXCEPT ![i] = c.result], next,
                               cap, k - 1)

RECURSIVE q_sort_collect_v0(_, _, _, _, _)
q_sort_collect_v0(m, array, result, i, lim) ==
    IF i < lim
    THEN LET r == merge_v0(m, array[i], result)
         IN  IF r.m.bad THEN [m |-> r.m, result |-> r.head]
             ELSE q_sort_collect_v0(r.m, array, r.head, i + 1, lim)
    ELSE [m |-> m, result |-> result]

q_sort_mem_v0(m, head, cap) ==
    LET array == [i \in 0 .. cap - 1 |-> NULL]
        result == m.nxt[head]
        m1 == SetNext(m, m.prv[head], NULL)
        c == q_sort_consume_v0(m1, array, result, cap, Fuel)
        f == q_sort_collect_v0(c.m, c.array, NULL, 0, cap)
        m2 == SetNext(f.m, head, f.result)
        w == RestorePrev(m2, head, Fuel)
        m3 == SetNext(w.m, w.tail, head)
    IN  SetPrev(m3, head, w.tail)

\* The chain of nodes a pending entry holds: from x along next to NULL.
Chain(f, x) == Walk(f, NULL, x, MaxLen + 1)

\* The pending array in memory m: entry i + 1 of the result is the chain
\* of pending[i].
Pending(m, pending, cap) ==
    [i \in 1 .. cap |-> Chain(m.nxt, pending[i - 1])]

\* The pending array when q_sort's consumption loop has ended.
q_sort_pending(m, head, cap) ==
    LET c == q_sort_consume(SetNext(m, m.prv[head], NULL),
                            [i \in 0 .. cap - 1 |-> NULL], m.nxt[head], cap,
                            Fuel)
    IN  Pending(c.m, c.pending, cap)

q_sort_pending_v0(m, head, cap) ==
    LET c == q_sort_consume_v0(SetNext(m, m.prv[head], NULL),
                               [i \in 0 .. cap - 1 |-> NULL], m.nxt[head],
                               cap, Fuel)
    IN  Pending(c.m, c.array, cap)

\* What q_sort leaves behind: memory m, and the record of the call with
\* the pending array its consumption loop ended with.
SortDone(m, pend) ==
    /\ Settle(m)
    /\ last' = [NoCall EXCEPT !.op = "sort", !.rel = m.rel, !.pend = pend]

q_sort ==
    /\ Call
    /\ IF q = NULL \/ nxt[q] = prv[q]
       THEN Untouched("sort")
       ELSE SortDone(q_sort_mem(Mem, q, Buckets),
                     q_sort_pending(Mem, q, Buckets))
    /\ UNCHANGED <<q, nalloc, held, count>>

q_sort_v0 ==
    /\ Call
    /\ IF q = NULL \/ nxt[q] = prv[q]
       THEN Untouched("sort")
       ELSE SortDone(q_sort_mem_v0(Mem, q, Buckets),
                     q_sort_pending_v0(Mem, q, Buckets))
    /\ UNCHANGED <<q, nalloc, held, count>>

\* ------------------------------------------------------ specifications
Next ==
    \/ q_new
    \/ q_free
    \/ q_insert_head
    \/ q_insert_tail
    \/ q_remove_head
    \/ q_remove_tail
    \/ q_release_element
    \/ q_size
    \/ q_delete_mid
    \/ q_delete_mid_v0
    \/ q_delete_dup
    \/ q_delete_dup_v0
    \/ q_swap
    \/ q_swap_v0
    \/ q_reverse
    \/ q_reverse_v0
    \/ q_sort
    \/ q_sort_v0

\* Any sequence of calls, starting before q_new.
Spec == Init /\ [][Next]_vars

\* The list q_insert_tail builds from the strings of vs, in elements
\* 1 .. Len(vs), and nothing else allocated.
InitList(vs) ==
    LET n == Len(vs)
        after(x) == IF x = Sentinel THEN (IF n = 0 THEN Sentinel ELSE 1)
                    ELSE IF x = NULL \/ x > n THEN NULL
                    ELSE IF x = n THEN Sentinel ELSE x + 1
        before(x) == IF x = Sentinel THEN (IF n = 0 THEN Sentinel ELSE n)
                     ELSE IF x = NULL \/ x > n THEN NULL
                     ELSE IF x = 1 THEN Sentinel ELSE x - 1
    IN  /\ q = Sentinel
        /\ nxt = [x \in Ptrs |-> after(x)]
        /\ prv = [x \in Ptrs |-> before(x)]
        /\ val = [x \in Elems |-> IF x <= n THEN vs[x] ELSE NULL]
        /\ st = [x \in Elems |-> IF x <= n THEN "live" ELSE "unalloc"]
        /\ nalloc = n
        /\ count = n

\* Every list of at most MaxLen strings.
Lists == UNION {[1 .. n -> StrSet] : n \in 0 .. MaxLen}

\* No list at all: q_new failed, or was never called.
InitAbsent ==
    /\ q = NULL
    /\ EmptyHeap
    /\ nalloc = 0
    /\ count = 0

InitOnce ==
    /\ InitAbsent \/ \E vs \in Lists : InitList(vs)
    /\ held = {}
    /\ last = NoCall
    /\ fault = "none"
    /\ driver = "once"

\* One call on any list of at most MaxLen elements, or on no list.
SpecOnce == InitOnce /\ [][Next]_vars

InitSmall ==
    /\ InitAbsent \/ \E vs \in Lists : InitList(vs)
    /\ held = {}
    /\ last = NoCall
    /\ fault = "none"
    /\ driver = "small"

\* The same, with q_sort's pending array SmallCap entries long.
SpecSmall == InitSmall /\ [][Next]_vars

\* ================================================================ claims
Rev(o) == [i \in 1 .. Len(o) |-> o[Len(o) + 1 - i]]

\* The nodes reachable from x by next links, x included.
RECURSIVE Reach(_, _, _)
Reach(x, seen, k) ==
    IF x \in seen \/ x \notin Nodes \/ k = 0 THEN seen
    ELSE Reach(nxt[x], seen \cup {x}, k - 1)
Reachable == IF q = NULL THEN {} ELSE Reach(q, {}, MaxLen + 2)

\* Following next from the sentinel comes back to the sentinel.
Closes ==
    LET o == Order
    IN  IF o = <<>> THEN nxt[q] = q ELSE nxt[o[Len(o)]] = q

\* C1: whenever a list exists, from q_new on and after every call, every
\* node x reachable from the sentinel has non-null links with
\* x.next.prev = x and x.prev.next = x, and following next from the
\* sentinel returns to the sentinel (sort included: its chain is closed
\* again when it returns).
C1_Circular ==
    q # NULL =>
        /\ \A x \in Reachable :
             /\ nxt[x] \in Nodes
             /\ prv[x] \in Nodes
             /\ prv[nxt[x]] = x
             /\ nxt[prv[x]] = x
        /\ Closes

\* Sort has returned on a list of three elements, "a" now before "b",
\* and the list reads the same backwards.
C1_Witness ==
    /\ last.op = "sort"
    /\ Len(Order) = 3
    /\ val[Order[1]] = <<1>>
    /\ val[Order[3]] = <<2>>
    /\ Order[1] > Order[3]
    /\ BackOrder = Rev(Order)

\* C2: the size a call to q_size returns is the number of successful
\* inserts minus the number of elements removed or deleted, which is the
\* number of elements linked; for an absent list it is 0.
C2_Size ==
    /\ q_size_mem(Mem, q) = count
    /\ last.op = "size" => last.ret = count /\ last.ret = Len(Order)
    /\ q = NULL => q_size_mem(Mem, q) = 0

\* q_size has returned 2 after three inserts and one removal.
C2_Witness ==
    /\ last.op = "size"
    /\ last.ret = 2
    /\ nalloc = 3
    /\ held # {}

Live == {e \in Elems : st[e] = "live"}
Inserts == {"insert_head", "insert_tail"}
Removes == {"remove_head", "remove_tail"}
Min(a, b) == IF a <= b THEN a ELSE b

\* C3: a successful q_insert_head makes the new element, holding a copy of
\* the string passed, the first element with the elements linked before
\* following in unchanged order; a successful q_insert_tail makes it the
\* last element with the others before it in unchanged order.
C3_InsertPlace ==
    [][(last'.op \in Inserts /\ last'.ret = TRUE) =>
          /\ last'.e \notin Linked
          /\ val'[last'.e] = last'.s
          /\ \A x \in Linked : val'[x] = val[x]
          /\ last'.op = "insert_head" => Order' = <<last'.e>> \o Order
          /\ last'.op = "insert_tail" => Order' = Order \o <<last'.e>>
          /\ BackOrder' = Rev(Order')]_vars

\* q_insert_head has put "ab" in front of three elements.
C3_Witness ==
    /\ last.op = "insert_head"
    /\ last.ret = TRUE
    /\ Order = <<4, 1, 2, 3>>
    /\ val[4] = <<1, 2>>
    /\ last.s = <<1, 2>>

\* C4: an insert in which an allocation fails returns false with every
\* link and the element order as before the call, and with no element
\* live that was not live before (the element allocated before a failed
\* strdup is freed).
C4_InsertFails ==
    [][(last'.op \in Inserts /\ last'.ret = FALSE) =>
          /\ nxt' = nxt
          /\ prv' = prv
          /\ Order' = Order
          /\ val' = val
          /\ Live' = Live
          /\ last'.e # NULL => st'[last'.e] = "freed"]_vars

\* q_insert_tail has failed in strdup on a list of two: the element it
\* allocated is freed.
C4_Witness ==
    /\ last.op = "insert_tail"
    /\ last.ret = FALSE
    /\ last.e = 3
    /\ st[3] = "freed"
    /\ Order = <<1, 2>>

\* C5, for the calls that return: q_remove_head / q_remove_tail on an
\* absent or empty list return
\* NULL and change nothing; on a non-empty list a call that returns has
\* unlinked exactly the first / last element, left the others in unchanged
\* order with their links closed over the gap, and returns the element
\* still allocated with its string intact.
C5_Remove ==
    [][(last'.op \in Removes /\ fault' = "none") =>
          IF q = NULL \/ Order = <<>>
          THEN /\ last'.ret = NULL
               /\ UNCHANGED <<q, nxt, prv, val, st, held, count>>
          ELSE /\ last'.op = "remove_head" =>
                    last'.ret = Order[1] /\ Order' = Tail(Order)
               /\ last'.op = "remove_tail" =>
                    /\ last'.ret = Order[Len(Order)]
                    /\ Order' = SubSeq(Order, 1, Len(Order) - 1)
               /\ BackOrder' = Rev(Order')
               /\ Closes'
               /\ st'[last'.ret] = "live"
               /\ val' = val
               /\ last'.ret \in held']_vars

\* C5 for every call: q_remove_head / q_remove_tail on an absent or empty
\* list return NULL and change nothing; on a non-empty list, whatever the
\* buffer arguments, the call returns, having unlinked exactly the first /
\* last element, with the others in unchanged order and their links
\* closed over the gap, and hands back the element still allocated with
\* its string intact.
C5_RemoveReturns ==
    [][last'.op \in Removes =>
          IF q = NULL \/ Order = <<>>
          THEN /\ last'.ret = NULL
               /\ UNCHANGED <<q, nxt, prv, val, st, held, count>>
          ELSE /\ fault' = "none"
               /\ last'.op = "remove_head" =>
                    last'.ret = Order[1] /\ Order' = Tail(Order)
               /\ last'.op = "remove_tail" =>
                    /\ last'.ret = Order[Len(Order)]
                    /\ Order' = SubSeq(Order, 1, Len(Order) - 1)
               /\ BackOrder' = Rev(Order')
               /\ Closes'
               /\ st'[last'.ret] = "live"
               /\ val' = val
               /\ last'.ret \in held']_vars

\* q_remove_tail has taken the last of four elements.
C5_Witness ==
    /\ last.op = "remove_tail"
    /\ last.ret = 4
    /\ Order = <<1, 2, 3>>
    /\ nxt[3] = q
    /\ prv[q] = 3
    /\ st[4] = "live"
    /\ fault = "none"

\* C6: after q_remove_head / q_remove_tail has removed an element with a
\* buffer of bufsize >= 1, the buffer holds the first
\* min(strlen(value), bufsize - 1) bytes of the element's string and then a
\* terminator, and the element's own string is unchanged.
C6_CopyOut ==
    [][(last'.op \in Removes /\ last'.e # NULL /\ last'.sp /\ last'.n >= 1) =>
          LET v == val[last'.e]
              k == Min(Len(v), last'.n - 1)
          IN  /\ Len(last'.buf) = last'.n
              /\ \A i \in 1 .. k : last'.buf[i] = v[i]
              /\ last'.buf[k + 1] = NUL
              /\ CStr(last'.buf) = SubSeq(v, 1, k)
              /\ val'[last'.e] = v
              /\ fault' = "none"]_vars

\* "ab" has been copied into a buffer of 2 bytes: "a" and the terminator.
C6_Witness ==
    /\ last.op = "remove_head"
    /\ last.e # NULL
    /\ last.sp
    /\ last.n = 2
    /\ val[last.e] = <<1, 2>>
    /\ last.buf = <<1, NUL>>

\* o without its element at position i (1-based).
Without(o, i) == SubSeq(o, 1, i - 1) \o SubSeq(o, i + 1, Len(o))

\* C7: q_delete_mid on a list of n >= 1 elements unlinks and releases
\* exactly the element at 0-based index n \div 2 (index 3 of six), leaves
\* the others linked in unchanged order and returns true; on an absent or
\* empty list it returns false and changes nothing.
C7_DeleteMid ==
    [][last'.op = "delete_mid" =>
          IF q = NULL \/ Order = <<>>
          THEN /\ last'.ret = FALSE
               /\ UNCHANGED <<q, nxt, prv, val, st, held, count>>
          ELSE LET n == Len(Order)
                   e == Order[(n \div 2) + 1]
               IN  /\ last'.ret = TRUE
                   /\ last'.e = e
                   /\ Order' = Without(Order, (n \div 2) + 1)
                   /\ BackOrder' = Rev(Order')
                   /\ Closes'
                   /\ st' = [st EXCEPT ![e] = "freed"]
                   /\ \A x \in Linked \ {e} : val'[x] = val[x]
                   /\ fault' = "none"]_vars

\* Of six elements the fourth (index 3) is gone and released.
C7_Witness ==
    /\ last.op = "delete_mid"
    /\ last.ret = TRUE
    /\ Order = <<1, 2, 3, 5, 6>>
    /\ st[4] = "freed"
    /\ Live = {1, 2, 3, 5, 6}

\* Ascending by strcmp.
Sorted(vs) ==
    \A i, j \in 1 .. Len(vs) : i < j => strcmp(vs[i], vs[j]) <= 0

\* How many elements of o hold the string v.
Occurs(v, o) == Cardinality({i \in 1 .. Len(o) : val[o[i]] = v})

\* The elements of o whose string no other element of o holds.
Singles(o) == SelectSeq(o, LAMBDA e : Occurs(val[e], o) = 1)

\* C8: q_delete_dup on a list sorted ascending returns true and leaves
\* exactly the elements whose string occurred once, in their original
\* order; every element of a run of two or more equal strings is released,
\* at the start of the list and up to the sentinel alike; an empty list is
\* left as it is.
C8_DeleteDup ==
    [][(last'.op = "delete_dup" /\ q # NULL /\ Sorted(Values(Order))) =>
          /\ last'.ret = TRUE
          /\ Order' = Singles(Order)
          /\ BackOrder' = Rev(Order')
          /\ Closes'
          /\ \A e \in Elems :
               st'[e] = IF e \in Linked /\ Occurs(val[e], Order) >= 2
                        THEN "freed" ELSE st[e]
          /\ \A x \in Linked' : val'[x] = val[x]
          /\ Order = <<>> => UNCHANGED <<nxt, prv, val, st>>
          /\ fault' = "none"]_vars

\* Of six elements only the third, "ab", is left: a run of two before it
\* and a run of three after it, up to the sentinel, are released.
C8_Witness ==
    /\ last.op = "delete_dup"
    /\ last.ret = TRUE
    /\ last.n = 5
    /\ Order = <<3>>
    /\ val[3] = <<1, 2>>
    /\ \A e \in {1, 2, 4, 5, 6} : st[e] = "freed"

\* o with the elements of every pair (1, 2), (3, 4), ... exchanged.
SwapPairs(o) ==
    [i \in 1 .. Len(o) |->
        IF i % 2 = 1 THEN (IF i < Len(o) THEN o[i + 1] ELSE o[i])
        ELSE o[i - 1]]

\* C9: q_swap exchanges the elements at positions 2k and 2k+1 (0-based)
\* for every k with 2k+1 < n by relinking, every element keeping its own
\* string, and leaves the last element of an odd list last.
C9_Swap ==
    [][last'.op = "swap" =>
          /\ Order' = SwapPairs(Order)
          /\ BackOrder' = Rev(Order')
          /\ q # NULL => Closes'
          /\ val' = val
          /\ st' = st
          /\ fault' = "none"]_vars

\* Five elements after q_swap: 2, 1, 4, 3, 5.
C9_Witness ==
    /\ last.op = "swap"
    /\ Order = <<2, 1, 4, 3, 5>>
    /\ BackOrder = <<5, 3, 4, 1, 2>>

\* The links q_reverse (either revision) leaves when called on links n, p.
Reversed(n, p, head) ==
    IF head = NULL \/ n[head] = head THEN [nxt |-> n, prv |-> p]
    ELSE q_reverse_mem([Mem EXCEPT !.nxt = n, !.prv = p], head)

Reversed_v0(n, p, head) ==
    IF head = NULL \/ n[head] = head THEN [nxt |-> n, prv |-> p]
    ELSE q_reverse_mem_v0([Mem EXCEPT !.nxt = n, !.prv = p], head)

\* C10: q_reverse makes the forward traversal the reverse of what it was,
\* and q_reverse applied again to what it leaves gives back the element
\* order and every next and prev link as they were before the first call.
C10_Reverse ==
    [][last'.op = "reverse" =>
          /\ Order' = Rev(Order)
          /\ BackOrder' = Order
          /\ q # NULL => Closes'
          /\ val' = val
          /\ Reversed(nxt', prv', q).nxt = nxt
          /\ Reversed(nxt', prv', q).prv = prv
          /\ Reversed_v0(nxt', prv', q).nxt = nxt
          /\ Reversed_v0(nxt', prv', q).prv = prv
          /\ fault' = "none"]_vars

\* Six elements after q_reverse: 6, 5, 4, 3, 2, 1.
C10_Witness ==
    /\ last.op = "reverse"
    /\ Order = <<6, 5, 4, 3, 2, 1>>
    /\ BackOrder = <<1, 2, 3, 4, 5, 6>>

\* The position of e in o.
PosIn(o, e) == CHOOSE i \in 1 .. Len(o) : o[i] = e

\* C11: after q_sort the forward traversal reads the strings in
\* non-decreasing strcmp order, and the elements linked are exactly those
\* linked before, each once; the list is closed again in both directions
\* and no string has changed.
C11_Sort ==
    [][last'.op = "sort" =>
          /\ Sorted(Values(Order)')
          /\ Len(Order') = Len(Order)
          /\ Linked' = Linked
          /\ BackOrder' = Rev(Order')
          /\ q # NULL => Closes'
          /\ val' = val
          /\ fault' = "none"]_vars

\* "ab", "a", "b" sorted: "a", "ab", "b".
C11_Witness ==
    /\ last.op = "sort"
    /\ Order = <<2, 1, 3>>
    /\ Values(Order) = << <<1>>, <<1, 2>>, <<2>> >>
    /\ BackOrder = <<3, 1, 2>>

\* Elements of o2 that hold equal strings stand in o2 as they stood in o.
Stable(o, o2) ==
    \A i, j \in 1 .. Len(o2) :
        (i < j /\ strcmp(val[o2[i]], val[o2[j]]) = 0)
            => PosIn(o, o2[i]) < PosIn(o, o2[j])

\* C12: q_sort is stable: of two elements holding equal strings, the one
\* that came first before the call comes first after it.
C12_Stable ==
    [][last'.op = "sort" => Stable(Order, Order')]_vars

\* The links q_sort (either revision) leaves when called on links n, p.
Resorted(n, p, head) ==
    IF head = NULL \/ n[head] = p[head] THEN [nxt |-> n, prv |-> p]
    ELSE q_sort_mem([Mem EXCEPT !.nxt = n, !.prv = p], head, Buckets)

Resorted_v0(n, p, head) ==
    IF head = NULL \/ n[head] = p[head] THEN [nxt |-> n, prv |-> p]
    ELSE q_sort_mem_v0([Mem EXCEPT !.nxt = n, !.prv = p], head, Buckets)

\* C13: q_sort on a list that is already ascending (empty, of one element
\* and of equal strings included) leaves every element where it was, and
\* q_sort applied to what q_sort leaves changes no link.
C13_SortAgain ==
    [][last'.op = "sort" =>
          /\ Sorted(Values(Order)) =>
                 /\ Order' = Order
                 /\ nxt' = nxt
                 /\ prv' = prv
          /\ Resorted(nxt', prv', q).nxt = nxt'
          /\ Resorted(nxt', prv', q).prv = prv'
          /\ Resorted_v0(nxt', prv', q).nxt = nxt'
          /\ Resorted_v0(nxt', prv', q).prv = prv']_vars

\* The calls that take the list handle.
ListOps ==
    {"free", "insert_head", "insert_tail", "remove_head", "remove_tail",
     "size", "delete_mid", "delete_dup", "swap", "reverse", "sort"}

\* C14: with a NULL list handle every function that takes the handle
\* returns without changing any state and without a fault: the inserts
\* return false and allocate nothing, the removes return NULL, q_size
\* returns 0, q_delete_mid and q_delete_dup return false, and q_free,
\* q_swap, q_reverse and q_sort do nothing.
C14_Absent ==
    [][(q = NULL /\ last'.op \in ListOps) =>
          /\ UNCHANGED <<q, nxt, prv, val, st, nalloc, held, count, fault>>
          /\ fault' = "none"
          /\ last'.op \in Inserts => last'.ret = FALSE /\ last'.e = NULL
          /\ last'.op \in Removes => last'.ret = NULL
          /\ last'.op = "size" => last'.ret = 0
          /\ last'.op \in {"delete_mid", "delete_dup"} =>
                 last'.ret = FALSE]_vars

\* q_delete_mid has returned false on the handle left NULL by q_free.
C14_Witness ==
    /\ q = NULL
    /\ last.op = "delete_mid"
    /\ last.ret = FALSE
    /\ nalloc = 2
    /\ fault = "none"

\* C15 as claimed: q_release_element given NULL returns early: no fault,
\* nothing read, nothing freed.
C15_ReleaseAbsent ==
    [][(last'.op = "release" /\ last'.e = NULL) =>
          /\ fault' = "none"
          /\ UNCHANGED <<nxt, prv, val, st, held>>]_vars

\* C15 (amended): q_release_element has no test of its argument.  Given an
\* element the caller holds it frees that element's string and the
\* element, once, and nothing else; given NULL it reads e->value through
\* the null pointer and the program stops there.
C15_Release ==
    [][last'.op = "release" =>
          IF last'.e = NULL
          THEN /\ fault' = "null"
               /\ UNCHANGED <<nxt, prv, val, st, held>>
          ELSE LET e == last'.e
               IN  /\ e \in held
                   /\ st[e] = "live"
                   /\ st' = [st EXCEPT ![e] = "freed"]
                   /\ val' = [val EXCEPT ![e] = NULL]
                   /\ held' = held \ {e}
                   /\ last'.rel = <<e>>
                   /\ Order' = Order
                   /\ fault' = fault]_vars

\* The element q_remove_head handed out has been released; the other two
\* are still linked.
C15_Witness ==
    /\ last.op = "release"
    /\ last.e = 3
    /\ st[3] = "freed"
    /\ val[3] = NULL
    /\ held = {}
    /\ Order = <<2, 1>>
    /\ fault = "none"

Range(f) == {f[i] : i \in 1 .. Len(f)}

\* C16: q_free releases every element linked when it is called exactly
\* once, in list order, and then frees the head; no element is ever freed
\* twice; and when the caller holds no removed element at that moment,
\* every element an insert ever allocated has been freed once q_free
\* returns.
C16_Destroy ==
    [][/\ fault' # "corrupt"
       /\ (last'.op = "free" /\ q # NULL) =>
             /\ last'.rel = Order
             /\ \A e \in Linked : st[e] = "live" /\ st'[e] = "freed"
             /\ \A e \in Elems \ Linked : st'[e] = st[e]
             /\ q' = NULL
             /\ nxt'[Sentinel] = NULL /\ prv'[Sentinel] = NULL
             /\ fault' = "none"
             /\ held = {} => \A e \in 1 .. nalloc : st'[e] = "freed"]_vars

\* Three inserts, one element removed and released by the caller, then
\* q_free released the two still linked: nothing is live.
C16_Witness ==
    /\ last.op = "free"
    /\ last.rel = <<1, 3>>
    /\ nalloc = 3
    /\ \A e \in 1 .. 3 : st[e] = "freed"
    /\ held = {}
    /\ q = NULL

\* C17: q_swap, q_reverse and q_sort allocate nothing and release nothing:
\* the allocator state of every element, the set of live elements and
\* every element's string are as before the call.
C17_LinksOnly ==
    [][last'.op \in {"swap", "reverse", "sort"} =>
          /\ st' = st
          /\ val' = val
          /\ Live' = Live
          /\ nalloc' = nalloc
          /\ held' = held
          /\ last'.rel = <<>>
          /\ Linked' = Linked
          /\ fault' = "none"]_vars

\* q_sort has turned "b","ab","a" round: every link changed, no string
\* moved.
C17_Witness ==
    /\ last.op = "sort"
    /\ Order = <<3, 2, 1>>
    /\ val[1] = <<2>>
    /\ val[2] = <<1, 2>>
    /\ val[3] = <<1>>
    /\ Live = {1, 2, 3}

\* The last entry of the pending array when q_sort has consumed the list.
LastBucket ==
    IF q = NULL \/ nxt[q] = prv[q] THEN NULL
    ELSE q_sort_consume(SetNext(Mem, prv[q], NULL),
                        [i \in 0 .. Buckets - 1 |-> NULL], nxt[q], Buckets,
                        Fuel).pending[Buckets - 1]

\* C18: q_sort is stable also when the last entry of the pending array is
\* occupied at the final merge: its elements, which came first in the
\* input, come before the elements of the lower entries that hold equal
\* strings.
C18_StableFull ==
    [][(last'.op = "sort" /\ LastBucket # NULL) =>
          Stable(Order, Order')]_vars

\* C19: q_delete_dup on any list, ascending or not, leaves the list
\* circular and doubly linked with only live elements on it, releases no
\* element twice and none that was not linked, and leaves every element
\* that was linked either linked or released.
C19_DeleteDupAny ==
    [][(last'.op = "delete_dup" /\ q # NULL) =>
          /\ C1_Circular'
          /\ BackOrder' = Rev(Order')
          /\ \A e \in Linked' : st'[e] = "live"
          /\ \A e \in Linked : e \in Linked' \/ st'[e] = "freed"
          /\ Len(last'.rel) = Cardinality(Range(last'.rel))
          /\ Range(last'.rel) \subseteq Linked
          /\ \A e \in Elems \ Linked : st'[e] = st[e]
          /\ fault' = "none"]_vars

\* "b","a","a","b","b","a", which is not ascending: the two runs are gone.
C19_Witness ==
    /\ last.op = "delete_dup"
    /\ Order = <<1, 6>>
    /\ val[1] = <<2>>
    /\ val[6] = <<1>>
    /\ last.rel = <<2, 3, 4, 5>>

Deletes == {"delete_mid", "delete_dup"}

\* C20 as claimed: in q_delete_mid and q_delete_dup, when
\* q_release_element is called on an element no next or prev link of a
\* node reachable from the head points to it.
C20_ReleaseUnlinked ==
    [][last'.op \in Deletes => last'.lnk = <<>>]_vars

\* C20 (amended): q_delete_mid unlinks the element before it releases it;
\* q_delete_dup releases every element of a run while a link of a
\* reachable node still points to it and closes the list over the run
\* afterwards; when either returns, no link of a node reachable from the
\* head points to a released element.
C20_ReleaseAtReturn ==
    [][last'.op \in Deletes =>
          /\ last'.op = "delete_mid" => last'.lnk = <<>>
          /\ last'.op = "delete_dup" => last'.lnk = last'.rel
          /\ \A e \in Range(last'.rel) : ~PointedTo(Mem', e)]_vars

\* "a","a","b": both "a" were released while still linked, and "b" is
\* now alone with the head.
C20_Witness ==
    /\ last.op = "delete_dup"
    /\ last.lnk = <<1, 2>>
    /\ Order = <<3>>
    /\ nxt[q] = 3 /\ prv[q] = 3
    /\ nxt[3] = q /\ prv[3] = q

\* The empty pending array.
NoPending == [i \in 0 .. Buckets - 1 |-> NULL]

\* C21: every call ends on every list the functions themselves build.
\* No loop runs on past its bound: on a list of n elements q_size counts
\* n, the forward and backward pointers of q_delete_mid meet on an element
\* within n \div 2 + 1 rounds (so they never pass each other), the walks
\* of q_free, q_delete_dup, q_swap and q_reverse are back at the head
\* after n, n, n \div 2 and n + 1 rounds, the consumption loop of q_sort
\* ends after n rounds, and its carry loop, merges and prev-link pass end
\* within the bound every loop is given.
C21_Terminates ==
    [][LET n == Len(Order)
       IN  /\ fault' # "corrupt"
           /\ last'.op = "size" => last'.ret = n
           /\ (last'.op = "free" /\ q # NULL) =>
                  ~q_free_loop(Mem, q, nxt[q], nxt[nxt[q]], n).bad
           /\ (last'.op = "delete_mid" /\ n > 0) =>
                  /\ q_delete_mid_loop(Mem, q, q, (n \div 2) + 1) \in Elems
                  /\ q_delete_mid_loop_v0(Mem, nxt[q], q, (n \div 2) + 1)
                         \in Elems
           /\ (last'.op = "delete_dup" /\ q # NULL) =>
                  /\ ~q_delete_dup_loop(Mem, q, nxt[q], nxt[nxt[q]], q,
                                        FALSE, n).bad
                  /\ ~q_delete_dup_loop_v0(Mem, q, nxt[nxt[q]], q, n).bad
           /\ (last'.op = "swap" /\ n > 0) =>
                  /\ ~q_swap_loop(Mem, q, nxt[q], n \div 2).bad
                  /\ ~q_swap_loop_v0(Mem, q, nxt[q], FALSE, n).bad
           /\ (last'.op = "reverse" /\ n > 0) =>
                  /\ ~q_reverse_loop(Mem, q, q, nxt[q], n + 1).bad
                  /\ ~q_reverse_loop_v0(Mem, q, nxt[q], nxt[nxt[q]], n).bad
           /\ (last'.op = "sort" /\ n > 1) =>
                  /\ ~q_sort_consume(SetNext(Mem, prv[q], NULL), NoPending,
                                     nxt[q], Buckets, n).m.bad
                  /\ ~q_sort_consume_v0(SetNext(Mem, prv[q], NULL),
                                        NoPending, nxt[q], Buckets, n).m.bad
                  /\ ~q_sort_mem(Mem, q, Buckets).bad
                  /\ ~q_sort_mem_v0(Mem, q, Buckets).bad]_vars

\* q_delete_mid has returned on a list of two, the even case in which the
\* pointers would pass each other: the second element is gone.
C21_Witness ==
    /\ last.op = "delete_mid"
    /\ last.e = 2
    /\ nalloc = 2
    /\ Order = <<1>>
    /\ st[2] = "freed"
    /\ fault = "none"

\* Bit i of j, for j up to MaxLen.
Bit(j, i) == IF i > MaxLen THEN 0 ELSE (j \div (2 ^ i)) % 2

\* Fewer than 2 ^ (Buckets - 1) elements.
BelowLast(j) == Buckets - 1 > MaxLen \/ j < 2 ^ (Buckets - 1)

\* The pending array p that memory m holds after j elements of the list
\* o were placed: entry i is empty or a chain of 2 ^ i elements ending in
\* NULL and ascending, it is occupied exactly when bit i of j is 1, the
\* elements of a higher entry stood before those of a lower one in o, and
\* together the entries hold the first j elements of o.
BucketsOK(m, p, o, j) ==
    LET ch(i) == Chain(m.nxt, p[i])
        Occupied == {i \in 0 .. Buckets - 1 : p[i] # NULL}
    IN  /\ Occupied = {i \in 0 .. Buckets - 1 : Bit(j, i) = 1}
        /\ \A i \in Occupied :
             /\ Len(ch(i)) = 2 ^ i
             /\ m.nxt[ch(i)[Len(ch(i))]] = NULL
             /\ Sorted(Values(ch(i)))
        /\ \A i1, i2 \in Occupied :
             i1 > i2 =>
                 \A x \in Range(ch(i1)), y \in Range(ch(i2)) :
                     PosIn(o, x) < PosIn(o, y)
        /\ UNION {Range(ch(i)) : i \in Occupied} = {o[k] : k \in 1 .. j}

\* C22: in q_sort's consumption loop, each time an element has been
\* placed and fewer than 2 ^ (Buckets - 1) elements are consumed, every
\* entry of the pending array is empty or a NULL-terminated ascending
\* chain of exactly 2 ^ i elements, entry i is occupied exactly when bit i
\* of the number of consumed elements is 1, and the elements of a higher
\* entry all came before those of a lower entry in the input.
C22_Buckets ==
    [][(last'.op = "sort" /\ q # NULL /\ nxt[q] # prv[q]) =>
          /\ \A j \in 1 .. Len(Order) :
               BelowLast(j) =>
                   LET c == q_sort_consume(SetNext(Mem, prv[q], NULL),
                                           NoPending, nxt[q], Buckets, j)
                       d == q_sort_consume_v0(SetNext(Mem, prv[q], NULL),
                                              NoPending, nxt[q], Buckets, j)
                   IN  /\ BucketsOK(c.m, c.pending, Order, j)
                       /\ BucketsOK(d.m, d.array, Order, j)
          /\ BelowLast(Len(Order)) =>
                 \A i \in 1 .. Buckets :
                     last'.pend[i] # <<>> <=> Bit(Len(Order), i - 1) = 1]_vars

\* "b","a","b","a","b","a" consumed: six is 110, so entry 0 is empty,
\* entry 1 holds the last two elements and entry 2 the first four, each
\* ascending.
C22_Witness ==
    /\ last.op = "sort"
    /\ Len(last.pend) = SORT_BUFSIZE
    /\ last.pend[1] = <<>>
    /\ last.pend[2] = <<6, 5>>
    /\ last.pend[3] = <<2, 4, 1, 3>>
    /\ \A i \in 4 .. SORT_BUFSIZE : last.pend[i] = <<>>
    /\ Order = <<2, 4, 6, 1, 3, 5>>

\* C23: q_remove_head / q_remove_tail given a buffer write no cell of it at
\* an index >= bufsize, whatever bufsize is, 0 included (where bufsize - 1
\* is computed in size_t and wraps).
C23_InBuffer ==
    [][(last'.op \in Removes /\ last'.e # NULL /\ last'.sp) =>
          /\ \A i \in Written(last'.n) : i < last'.n
          /\ fault' # "overflow"]_vars

====
